---- MODULE Spec2Model ----
(***************************************************************************)
(* The session controller of the terminal tic-tac-toe client               *)
(* (frontend-tui/src/app.rs): the screen state machine, the once-a-second  *)
(* poller and the key handlers of every screen.  The remote game service   *)
(* is the environment: every remote call is answered, inside the step that *)
(* issues it, by a reply drawn from a set of replies.                      *)
(*                                                                         *)
(* Option<T> is a sequence of length at most one: None is <<>>, Some(x) is *)
(* <<x>>.  A String buffer is a sequence of characters; a formatted        *)
(* message is the sequence of its pieces.                                  *)
(***************************************************************************)
EXTENDS Integers, Sequences, FiniteSets, TLC

VARIABLES
    screen,                 \* App.screen
    home_index,             \* App.home_index
    board_cursor,           \* App.board_cursor
    solo_game,              \* App.solo_game : Option<ApiGame>
    pvp_game,               \* App.pvp_game  : Option<ApiGame>
    pvp_games,              \* App.pvp_games : Vec<ApiGame>
    pvp_selected_index,     \* App.pvp_selected_index
    create_name,            \* App.create_name
    create_password,        \* App.create_password
    create_field_index,     \* App.create_field_index
    join_password,          \* App.join_password
    editing_join_password,  \* App.editing_join_password
    game_over_message,      \* App.game_over_message
    info_message,           \* App.info_message
    should_quit,            \* App.should_quit
    elapsed,                \* App.last_poll_at.elapsed(), in whole seconds
    since_fetch,            \* seconds since the poller last issued a fetch
    failed,                 \* the remote call of the key dispatched last failed
    pc,                     \* position in the loop of App::run
    ev,                     \* the step of the loop taken last
    pre,                    \* the fields of App as they were before that step
    calls,                  \* the remote calls that step issued
    nkeys                   \* the number of key events dispatched so far

vars == <<screen, home_index, board_cursor, solo_game, pvp_game, pvp_games,
          pvp_selected_index, create_name, create_password, create_field_index,
          join_password, editing_join_password, game_over_message, info_message,
          should_quit, elapsed, since_fetch, failed, pc, ev, pre, calls, nkeys>>

formVars == <<create_name, create_password, create_field_index>>
joinVars == <<join_password, editing_join_password>>
lobbyVars == <<pvp_games, pvp_selected_index>>
gameVars == <<solo_game, pvp_game>>
msgVars == <<game_over_message, info_message>>

\* the fields of App
Snapshot ==
    [screen |-> screen, home_index |-> home_index, board_cursor |-> board_cursor,
     solo_game |-> solo_game, pvp_game |-> pvp_game, pvp_games |-> pvp_games,
     pvp_selected_index |-> pvp_selected_index, create_name |-> create_name,
     create_password |-> create_password, create_field_index |-> create_field_index,
     join_password |-> join_password, editing_join_password |-> editing_join_password,
     game_over_message |-> game_over_message, info_message |-> info_message,
     should_quit |-> should_quit]

----------------------------------------------------------------------------
(* Values *)

None == <<>>
Some(x) == <<x>>

\* saturating_sub on usize
SatSub(a, b) == IF a >= b THEN a - b ELSE 0
Min(a, b) == IF a <= b THEN a ELSE b

\* Uuid::new_v4() of this launch, and the identity of any other player
player_id == "me"
other_id == "other"

Screens == {"Home", "SoloGame", "PvpLobby", "PvpCreate", "PvpGame", "GameOver", "Info"}

\* crossterm KeyCode: a named key, or Char(ch)
Key(code) == [code |-> code, ch |-> ""]
Char(c) == [code |-> "Char", ch |-> c]
NoKey == Key("none")

\* one ApiGame
BoardCells == 9
EmptyBoard == [i \in 1..BoardCells |-> None]
\* a board as the service may send it: Vec<Option<String>> of any length
ShortBoard == [i \in 1..(BoardCells - 1) |-> None]
ApiGame(id, mode, host, guest, board, turn, status, winner, pw) ==
    [id |-> id, mode |-> mode, name |-> None, host_player_id |-> host,
     guest_player_id |-> guest, board |-> board,
     current_turn |-> turn, status |-> status, winner |-> winner,
     has_password |-> pw]

\* Result<T>: Ok(value) or Err(text of the anyhow error)
Ok(v) == [ok |-> TRUE, val |-> v, err |-> ""]
Err(e) == [ok |-> FALSE, val |-> None, err |-> e]

\* the two failures parse_json_response produces
ErrStatus == "request failed with 500"
ErrShape == "invalid JSON response shape"

\* the requests of ApiClient
CreateSoloCall(p) ==
    [op |-> "create_solo_game", player_id |-> Some(p), game_id |-> None,
     index |-> None, name |-> None, password |-> None]
CreatePvpCall(p, name, password) ==
    [op |-> "create_pvp_game", player_id |-> Some(p), game_id |-> None,
     index |-> None, name |-> Some(name), password |-> password]
ListOpenCall ==
    [op |-> "list_open_pvp_games", player_id |-> None, game_id |-> None,
     index |-> None, name |-> None, password |-> None]
JoinPvpCall(p, id, password) ==
    [op |-> "join_pvp_game", player_id |-> Some(p), game_id |-> Some(id),
     index |-> None, name |-> None, password |-> password]
GetGameCall(id) ==
    [op |-> "get_game", player_id |-> None, game_id |-> Some(id),
     index |-> None, name |-> None, password |-> None]
PlayMoveCall(p, id, index) ==
    [op |-> "play_move", player_id |-> Some(p), game_id |-> Some(id),
     index |-> Some(index), name |-> None, password |-> None]

----------------------------------------------------------------------------
(* Pure functions of app.rs *)

\* String::len() counts UTF-8 bytes: WideChar stands for a two-byte character
WideChar == "U+00E9"
Utf8Len(c) == IF c = WideChar THEN 2 ELSE 1

RECURSIVE ByteLen(_)
ByteLen(s) == IF s = <<>> THEN 0 ELSE Utf8Len(Head(s)) + ByteLen(Tail(s))

IsWhitespace(c) == c = " "

RECURSIVE TrimStart(_)
TrimStart(s) ==
    IF s # <<>> /\ IsWhitespace(Head(s)) THEN TrimStart(Tail(s)) ELSE s

RECURSIVE TrimEnd(_)
TrimEnd(s) ==
    IF s # <<>> /\ IsWhitespace(s[Len(s)])
    THEN TrimEnd(SubSeq(s, 1, Len(s) - 1)) ELSE s

\* str::trim
Trim(s) == TrimEnd(TrimStart(s))

\* String::pop
Pop(s) == IF s = <<>> THEN s ELSE SubSeq(s, 1, Len(s) - 1)

\* PushCapped that still pushes when the buffer is at its cap
PushCappedInclusive(s, c, cap) == IF ByteLen(s) <= cap THEN Append(s, c) ELSE s
\* String::push behind the length check of the caller
PushCapped(s, c, cap) == IF ByteLen(s) < cap THEN Append(s, c) ELSE s

NameCap == 40
PasswordCap == 32
MinNameLen == 3
HomeItems == 3

\* Option::unwrap_or
UnwrapOr(o, d) == IF o = None THEN d ELSE o[1]

PlayerSymbolFor(game) ==
    IF game.host_player_id = player_id THEN "X"
    ELSE IF game.guest_player_id = Some(player_id) THEN "O"
    ELSE "?"

IsGameFinished(game) == game.status \in {"WON", "DRAW"}

\* the turn test of handle_solo_key and of handle_pvp_game_key
SoloPlayerTurn(game) == game.current_turn = "X"
PvpMyTurn(game) == PlayerSymbolFor(game) = game.current_turn
\* GameRunning that only rules out a draw
GameRunningUnlessDraw(game) == game.status # "DRAW"
GameRunning(game) == game.status = "IN_PROGRESS"

Digits == <<"1", "2", "3", "4", "5", "6", "7", "8", "9">>
IsDigitKey(key) == key.code = "Char" /\ \E i \in 1..9 : Digits[i] = key.ch
DigitIndex(key) == (CHOOSE i \in 1..9 : Digits[i] = key.ch) - 1

\* UpdateBoardCursor that steps the index and not the row and the column
UpdateBoardCursorFlat(cursor, key) ==
    CASE key.code = "Left" -> SatSub(cursor, 1)
      [] key.code = "Right" -> Min(cursor + 1, 8)
      [] key.code = "Up" -> IF cursor >= 3 THEN cursor - 3 ELSE cursor
      [] key.code = "Down" -> IF cursor <= 5 THEN cursor + 3 ELSE cursor
      [] IsDigitKey(key) -> DigitIndex(key)
      [] OTHER -> cursor
UpdateBoardCursor(cursor, key) ==
    LET row == cursor \div 3
        col == cursor % 3
    IN  CASE key.code = "Left" -> row * 3 + SatSub(col, 1)
          [] key.code = "Right" -> row * 3 + Min(col + 1, 2)
          [] key.code = "Up" -> SatSub(row, 1) * 3 + col
          [] key.code = "Down" -> Min(row + 1, 2) * 3 + col
          [] IsDigitKey(key) -> DigitIndex(key)
          [] OTHER -> row * 3 + col

\* JoinPasswordFor that sends the buffer whether or not the game is gated
JoinPasswordUngated(game, buffer) == IF buffer = <<>> THEN None ELSE Some(buffer)
\* the password handle_pvp_lobby_key sends with a join
JoinPasswordFor(game, buffer) ==
    IF game.has_password
    THEN IF buffer = <<>> THEN None ELSE Some(buffer)
    ELSE None

\* the validation and the password handle_pvp_create_key sends with a create
NameTooShort(name) == ByteLen(Trim(name)) < MinNameLen
CreatePasswordFor(buffer) ==
    IF Trim(buffer) = <<>> THEN None ELSE Some(Trim(buffer))

\* the texts of show_error
InfoText(prefix, err) == <<prefix, err>>
NameTooShortText == <<"Game name must be at least 3 chars">>

\* ResultLine that takes the player for X whoever hosts the game
ResultLineAsX(game) ==
    IF game.status = "WON"
    THEN LET winner == UnwrapOr(game.winner, "Unknown")
             outcome == IF winner = "X" THEN "You won!" ELSE "You lost."
         IN  <<"Winner: ", winner, " (", outcome, ")">>
    ELSE <<"Result: Draw">>
ResultLine(game) ==
    IF game.status = "WON"
    THEN LET winner == UnwrapOr(game.winner, "Unknown")
             you == PlayerSymbolFor(game)
             outcome == IF winner = you THEN "You won!" ELSE "You lost."
         IN  <<"Winner: ", winner, " (", outcome, ")">>
    ELSE <<"Result: Draw">>

GameOverText(game, mode_label) ==
    <<mode_label, " game finished.\nGame id: ", game.id, "\n">> \o ResultLine(game)

----------------------------------------------------------------------------
(* The loop of App::run.  One iteration is refresh, draw, then the wait for *)
(* one input event; pc is the step the loop takes next.                     *)

\* Duration::from_secs(1), in seconds
PollInterval == 1
\* elapsed is not counted beyond this many seconds
MaxElapsed == 1

Init ==
    /\ screen = "Home"
    /\ home_index = 0
    /\ board_cursor = 0
    /\ solo_game = None
    /\ pvp_game = None
    /\ pvp_games = <<>>
    /\ pvp_selected_index = 0
    /\ create_name = <<>>
    /\ create_password = <<>>
    /\ create_field_index = 0
    /\ join_password = <<>>
    /\ editing_join_password = FALSE
    /\ game_over_message = <<>>
    /\ info_message = <<>>
    /\ should_quit = FALSE
    /\ elapsed = 0
    /\ since_fetch = PollInterval
    /\ failed = FALSE
    /\ pc = "refresh"
    /\ ev = [op |-> "init", key |-> NoKey, res |-> "none"]
    /\ pre = Snapshot
    /\ calls = <<>>
    /\ nkeys = 0

\* wall-clock time passes, during a wait or during a remote call
TimePasses ==
    /\ pc \notin {"done", "panicked"}
    /\ elapsed < MaxElapsed
    /\ elapsed' = elapsed + 1
    /\ since_fetch' = Min(since_fetch + 1, PollInterval)
    /\ UNCHANGED <<screen, home_index, board_cursor, gameVars, lobbyVars, formVars,
                   joinVars, msgVars, should_quit, failed, pc, ev, pre, calls, nkeys>>

ShowError(message) ==
    /\ info_message' = message
    /\ screen' = "Info"

OpenGameOver(game, mode_label) ==
    /\ game_over_message' = GameOverText(game, mode_label)
    /\ screen' = "GameOver"

\* PollClamp with a plain subtraction
PollClampUnsaturated(index, len) == IF index >= len THEN len - 1 ELSE index
\* the selection index after the poller replaced the list
PollClamp(index, len) == IF index >= len THEN SatSub(len, 1) ELSE index

RefreshDone(res, cs) ==
    /\ ev' = [op |-> "refresh", key |-> NoKey, res |-> res]
    /\ pre' = Snapshot
    /\ calls' = cs
    /\ since_fetch' = IF cs = <<>> THEN since_fetch ELSE 0
    /\ pc' = "draw"
    /\ UNCHANGED <<failed, nkeys>>

\* Stamp that keeps the old timestamp when the fetch failed
StampUnlessFailed(res) == elapsed' = IF res = "err" THEN elapsed ELSE 0
\* last_poll_at = Instant::now(), at the end of a tick whose gate was open
Stamp(res) == elapsed' = 0

\* PollLobbyOk that resets the selection like the manual refresh
PollLobbyOkResets(games) ==
    /\ pvp_games' = games
    /\ pvp_selected_index' = 0
    /\ UNCHANGED <<screen, gameVars, msgVars>>
PollLobbyOk(games) ==
    /\ pvp_games' = games
    /\ pvp_selected_index' = PollClamp(pvp_selected_index, Len(games))
    /\ UNCHANGED <<screen, gameVars, msgVars>>

PollLobbyErr(err) ==
    UNCHANGED <<screen, gameVars, lobbyVars, msgVars>>

\* PollGameOk that keeps the cached view when the game is over
PollGameOkKeepsView(game) ==
    /\ IF IsGameFinished(game)
       THEN OpenGameOver(game, "PvP") /\ UNCHANGED <<info_message, pvp_game>>
       ELSE pvp_game' = Some(game) /\ UNCHANGED <<screen, msgVars>>
    /\ UNCHANGED <<solo_game, lobbyVars>>
PollGameOk(game) ==
    /\ IF IsGameFinished(game)
       THEN OpenGameOver(game, "PvP") /\ UNCHANGED info_message
       ELSE UNCHANGED <<screen, msgVars>>
    /\ pvp_game' = Some(game)
    /\ UNCHANGED <<solo_game, lobbyVars>>

\* PollGameErr that reports the failure like a key handler does
PollGameErrShown(err) ==
    /\ info_message' = InfoText("Refresh failed: ", err)
    /\ screen' = "Info"
    /\ UNCHANGED <<gameVars, lobbyVars, game_over_message>>
PollGameErr(err) ==
    UNCHANGED <<screen, gameVars, lobbyVars, msgVars>>

\* PollsList that also refreshes the list behind the create form
PollsListBehindForm(s) == s \in {"PvpLobby", "PvpCreate"}
\* PollsList that fetches the list again from the error screen
PollsListAfterFailure(s) == s \in {"PvpLobby", "Info"}
\* the screen on which the poller fetches the lobby list
PollsList(s) == s = "PvpLobby"

RefreshRemoteStateIfNeeded(E) ==
    /\ pc = "refresh"
    /\ UNCHANGED <<home_index, board_cursor, formVars, joinVars, should_quit>>
    /\ IF elapsed < PollInterval
       THEN /\ UNCHANGED <<screen, gameVars, lobbyVars, msgVars, elapsed>>
            /\ RefreshDone("closed", <<>>)
       ELSE CASE PollsList(screen) ->
                     \E r \in E.list :
                        /\ IF r.ok THEN PollLobbyOk(r.val) ELSE PollLobbyErr(r.err)
                        /\ Stamp(IF r.ok THEN "ok" ELSE "err")
                        /\ RefreshDone(IF r.ok THEN "ok" ELSE "err", <<ListOpenCall>>)
                [] screen = "PvpGame" /\ pvp_game # None ->
                     \E r \in E.get :
                        /\ IF r.ok THEN PollGameOk(r.val) ELSE PollGameErr(r.err)
                        /\ Stamp(IF r.ok THEN "ok" ELSE "err")
                        /\ RefreshDone(IF r.ok THEN "ok" ELSE "err",
                                       <<GetGameCall(pvp_game[1].id)>>)
                [] OTHER ->
                     /\ UNCHANGED <<screen, gameVars, lobbyVars, msgVars>>
                     /\ Stamp("none")
                     /\ RefreshDone("none", <<>>)

\* draw_game renders cells 0..8 of the active view: board[idx] panics on a
\* board of fewer cells
DrawPanics ==
    LET view == IF screen = "SoloGame" THEN solo_game
                ELSE IF screen = "PvpGame" THEN pvp_game
                ELSE None
    IN  view # None /\ Len(view[1].board) < BoardCells

\* terminal.draw: the renderer reads the state and changes none of it
Draw ==
    /\ pc = "draw"
    /\ pc' = IF DrawPanics THEN "panicked" ELSE "event"
    /\ ev' = [op |-> "draw", key |-> NoKey, res |-> "none"]
    /\ pre' = Snapshot
    /\ calls' = <<>>
    /\ UNCHANGED <<screen, home_index, board_cursor, gameVars, lobbyVars, formVars,
                   joinVars, msgVars, should_quit, elapsed, since_fetch, failed, nkeys>>

\* NoKeyEvent that waits for a key without a timeout
NoKeyEventBlocks ==
    /\ pc = "event"
    /\ pc' = "event"
    /\ UNCHANGED <<screen, home_index, board_cursor, gameVars, lobbyVars, formVars,
                   joinVars, msgVars, should_quit, elapsed, since_fetch, failed,
                   ev, pre, calls, nkeys>>
\* event::poll timed out, or the event read was no key event
NoKeyEvent ==
    /\ pc = "event"
    /\ pc' = "refresh"
    /\ UNCHANGED <<screen, home_index, board_cursor, gameVars, lobbyVars, formVars,
                   joinVars, msgVars, should_quit, elapsed, since_fetch, failed,
                   ev, pre, calls, nkeys>>

\* KeyDone that ends the session when the remote call failed
KeyDoneFailing(key, res, cs) ==
    /\ ev' = [op |-> "key", key |-> key, res |-> res]
    /\ pre' = Snapshot
    /\ calls' = cs
    /\ pc' = IF should_quit' \/ res = "err" THEN "done" ELSE "refresh"
    /\ nkeys' = nkeys + 1
    /\ failed' = (res = "err")
    /\ UNCHANGED <<elapsed, since_fetch>>
\* KeyDone that dispatches the queued key events before the next tick
KeyDoneDrainsQueue(key, res, cs) ==
    /\ ev' = [op |-> "key", key |-> key, res |-> res]
    /\ pre' = Snapshot
    /\ calls' = cs
    /\ pc' = IF should_quit' THEN "done" ELSE "event"
    /\ nkeys' = nkeys + 1
    /\ failed' = (res = "err")
    /\ UNCHANGED <<elapsed, since_fetch>>
\* the end of handle_key and the loop test of run
KeyDone(key, res, cs) ==
    /\ ev' = [op |-> "key", key |-> key, res |-> res]
    /\ pre' = Snapshot
    /\ calls' = cs
    /\ pc' = IF should_quit' THEN "done" ELSE "refresh"
    /\ nkeys' = nkeys + 1
    /\ failed' = (res = "err")
    /\ UNCHANGED <<elapsed, since_fetch>>

----------------------------------------------------------------------------
(* handle_key: one handler per screen *)

\* HomeCreateSoloOk that caches the new solo game as the pvp view
HomeCreateSoloOkAsPvp(game) ==
    /\ pvp_game' = Some(game)
    /\ board_cursor' = 0
    /\ screen' = "SoloGame"
    /\ UNCHANGED <<solo_game, lobbyVars, msgVars>>
HomeCreateSoloOk(game) ==
    /\ solo_game' = Some(game)
    /\ board_cursor' = 0
    /\ screen' = "SoloGame"
    /\ UNCHANGED <<pvp_game, lobbyVars, msgVars>>

HomeCreateSoloErr(err) ==
    /\ ShowError(InfoText("Could not start solo game: ", err))
    /\ UNCHANGED <<board_cursor, gameVars, lobbyVars, game_over_message>>

\* HomeListOk that opens the create form at once
HomeListOkOpensCreate(games) ==
    /\ pvp_games' = games
    /\ pvp_selected_index' = 0
    /\ screen' = "PvpCreate"
    /\ UNCHANGED <<board_cursor, gameVars, msgVars>>
HomeListOk(games) ==
    /\ pvp_games' = games
    /\ pvp_selected_index' = 0
    /\ screen' = "PvpLobby"
    /\ UNCHANGED <<board_cursor, gameVars, msgVars>>

\* HomeListErr that also empties the lobby list
HomeListErrClearsList(err) ==
    /\ ShowError(InfoText("Could not load PvP games: ", err))
    /\ pvp_games' = <<>>
    /\ UNCHANGED <<board_cursor, gameVars, pvp_selected_index, game_over_message>>
HomeListErr(err) ==
    /\ ShowError(InfoText("Could not load PvP games: ", err))
    /\ UNCHANGED <<board_cursor, gameVars, lobbyVars, game_over_message>>

HomeUp(index) == SatSub(index, 1)
\* HomeDown with a wrap-around menu
HomeDownWraps(index) == (index + 1) % HomeItems
HomeDown(index) == IF index + 1 < HomeItems THEN index + 1 ELSE index

HandleHomeKey(key, E) ==
    /\ pc = "event"
    /\ screen = "Home"
    /\ UNCHANGED <<formVars, joinVars>>
    /\ CASE key = Char("q") ->
              /\ should_quit' = TRUE
              /\ UNCHANGED <<screen, home_index, board_cursor, gameVars, lobbyVars, msgVars>>
              /\ KeyDone(key, "none", <<>>)
         [] key.code = "Up" ->
              /\ home_index' = HomeUp(home_index)
              /\ UNCHANGED <<screen, board_cursor, gameVars, lobbyVars, msgVars, should_quit>>
              /\ KeyDone(key, "none", <<>>)
         [] key.code = "Down" ->
              /\ home_index' = HomeDown(home_index)
              /\ UNCHANGED <<screen, board_cursor, gameVars, lobbyVars, msgVars, should_quit>>
              /\ KeyDone(key, "none", <<>>)
         [] key.code = "Enter" /\ home_index = 0 ->
              \E r \in E.solo :
                 /\ IF r.ok THEN HomeCreateSoloOk(r.val) ELSE HomeCreateSoloErr(r.err)
                 /\ UNCHANGED <<home_index, should_quit>>
                 /\ KeyDone(key, IF r.ok THEN "ok" ELSE "err", <<CreateSoloCall(player_id)>>)
         [] key.code = "Enter" /\ home_index = 1 ->
              \E r \in E.list :
                 /\ IF r.ok THEN HomeListOk(r.val) ELSE HomeListErr(r.err)
                 /\ UNCHANGED <<home_index, should_quit>>
                 /\ KeyDone(key, IF r.ok THEN "ok" ELSE "err", <<ListOpenCall>>)
         [] key.code = "Enter" /\ home_index > 1 ->
              /\ should_quit' = TRUE
              /\ UNCHANGED <<screen, home_index, board_cursor, gameVars, lobbyVars, msgVars>>
              /\ KeyDone(key, "none", <<>>)
         [] OTHER ->
              /\ UNCHANGED <<screen, home_index, board_cursor, gameVars, lobbyVars, msgVars,
                             should_quit>>
              /\ KeyDone(key, "none", <<>>)

IsConfirm(key) == key.code = "Enter" \/ key = Char(" ")

\* the reply to play_move, on either game screen
MoveOkScreen(updated, mode_label) ==
    IF IsGameFinished(updated)
    THEN OpenGameOver(updated, mode_label) /\ UNCHANGED info_message
    ELSE UNCHANGED <<screen, msgVars>>

\* MoveErr that also drops the cached views
MoveErrDropsViews(err) ==
    /\ ShowError(InfoText("Move failed: ", err))
    /\ solo_game' = None
    /\ pvp_game' = None
    /\ UNCHANGED game_over_message
MoveErr(err) ==
    /\ ShowError(InfoText("Move failed: ", err))
    /\ UNCHANGED <<gameVars, game_over_message>>

\* GameBack that returns to Home from either game screen
GameBackAlwaysHome(s) == "Home"
\* the screen the back key of a game screen returns to
GameBack(s) == IF s = "SoloGame" THEN "Home" ELSE "PvpLobby"

\* whether handle_solo_key sends the move
SoloSendsMove(key, game) == IsConfirm(key) /\ SoloPlayerTurn(game) /\ GameRunning(game)

HandleSoloKey(key, E) ==
    /\ pc = "event"
    /\ screen = "SoloGame"
    /\ UNCHANGED <<home_index, lobbyVars, formVars, joinVars>>
    /\ CASE key = Char("b") ->
              /\ screen' = GameBack("SoloGame")
              /\ UNCHANGED <<board_cursor, gameVars, msgVars, should_quit>>
              /\ KeyDone(key, "none", <<>>)
         [] key = Char("q") ->
              /\ should_quit' = TRUE
              /\ UNCHANGED <<screen, board_cursor, gameVars, msgVars>>
              /\ KeyDone(key, "none", <<>>)
         [] OTHER ->
              /\ board_cursor' = UpdateBoardCursor(board_cursor, key)
              /\ UNCHANGED should_quit
              /\ IF solo_game # None /\ SoloSendsMove(key, solo_game[1])
                 THEN \E r \in E.move :
                         /\ IF r.ok
                            THEN /\ MoveOkScreen(r.val, "Solo")
                                 /\ solo_game' = Some(r.val)
                                 /\ UNCHANGED pvp_game
                            ELSE MoveErr(r.err)
                         /\ KeyDone(key, IF r.ok THEN "ok" ELSE "err",
                                    <<PlayMoveCall(player_id, solo_game[1].id, board_cursor')>>)
                 ELSE /\ UNCHANGED <<screen, gameVars, msgVars>>
                      /\ KeyDone(key, "none", <<>>)

\* whether handle_pvp_game_key sends the move
PvpSendsMove(key, game) == IsConfirm(key) /\ GameRunning(game) /\ PvpMyTurn(game)

HandlePvpGameKey(key, E) ==
    /\ pc = "event"
    /\ screen = "PvpGame"
    /\ UNCHANGED <<home_index, lobbyVars, formVars, joinVars>>
    /\ CASE key = Char("b") ->
              /\ screen' = GameBack("PvpGame")
              /\ UNCHANGED <<board_cursor, gameVars, msgVars, should_quit>>
              /\ KeyDone(key, "none", <<>>)
         [] key = Char("q") ->
              /\ should_quit' = TRUE
              /\ UNCHANGED <<screen, board_cursor, gameVars, msgVars>>
              /\ KeyDone(key, "none", <<>>)
         [] OTHER ->
              /\ board_cursor' = UpdateBoardCursor(board_cursor, key)
              /\ UNCHANGED should_quit
              /\ IF pvp_game # None /\ PvpSendsMove(key, pvp_game[1])
                 THEN \E r \in E.move :
                         /\ IF r.ok
                            THEN /\ MoveOkScreen(r.val, "PvP")
                                 /\ pvp_game' = Some(r.val)
                                 /\ UNCHANGED solo_game
                            ELSE MoveErr(r.err)
                         /\ KeyDone(key, IF r.ok THEN "ok" ELSE "err",
                                    <<PlayMoveCall(player_id, pvp_game[1].id, board_cursor')>>)
                 ELSE /\ UNCHANGED <<screen, gameVars, msgVars>>
                      /\ KeyDone(key, "none", <<>>)

LobbyUp(index) == SatSub(index, 1)
LobbyDown(index, len) == IF index + 1 < len THEN index + 1 ELSE index

\* LobbyRefreshOk that keeps the selection like the poller does
LobbyRefreshOkKeepsIndex(games) ==
    /\ pvp_games' = games
    /\ pvp_selected_index' = PollClamp(pvp_selected_index, Len(games))
    /\ UNCHANGED <<screen, info_message>>
LobbyRefreshOk(games) ==
    /\ pvp_games' = games
    /\ pvp_selected_index' = 0
    /\ UNCHANGED <<screen, info_message>>

LobbyRefreshErr(err) ==
    /\ ShowError(InfoText("Refresh failed: ", err))
    /\ UNCHANGED lobbyVars

\* LobbyJoinOk that enters the game before the view is cached
LobbyJoinOkNoView(joined) ==
    /\ board_cursor' = 0
    /\ screen' = "PvpGame"
    /\ UNCHANGED <<pvp_game, info_message>>
\* LobbyJoinOk that keeps the cursor of the game played before
LobbyJoinOkKeepsCursor(joined) ==
    /\ pvp_game' = Some(joined)
    /\ screen' = "PvpGame"
    /\ UNCHANGED <<board_cursor, info_message>>
LobbyJoinOk(joined) ==
    /\ pvp_game' = Some(joined)
    /\ board_cursor' = 0
    /\ screen' = "PvpGame"
    /\ UNCHANGED info_message

LobbyJoinErr(err) ==
    /\ ShowError(InfoText("Join failed: ", err))
    /\ UNCHANGED <<pvp_game, board_cursor>>

\* LobbyEditKey in which 'b' goes back to Home with edit mode left on
LobbyEditKeyBackLeaves(key) ==
    /\ CASE key.code \in {"Esc", "Enter"} ->
              /\ editing_join_password' = FALSE
              /\ UNCHANGED <<join_password, screen>>
         [] key.code = "Backspace" ->
              /\ join_password' = Pop(join_password)
              /\ UNCHANGED <<editing_join_password, screen>>
         [] key = Char("b") ->
              /\ screen' = "Home"
              /\ UNCHANGED joinVars
         [] key.code = "Char" /\ key # Char("b") ->
              /\ join_password' = PushCapped(join_password, key.ch, PasswordCap)
              /\ UNCHANGED <<editing_join_password, screen>>
         [] OTHER -> UNCHANGED <<joinVars, screen>>
    /\ UNCHANGED <<board_cursor, pvp_game, lobbyVars, formVars, info_message,
                   should_quit>>
    /\ KeyDone(key, "none", <<>>)
\* LobbyEditKey in which 'q' quits and is not typed
LobbyEditKeyQuits(key) ==
    /\ CASE key.code \in {"Esc", "Enter"} ->
              /\ editing_join_password' = FALSE
              /\ UNCHANGED <<join_password, should_quit>>
         [] key.code = "Backspace" ->
              /\ join_password' = Pop(join_password)
              /\ UNCHANGED <<editing_join_password, should_quit>>
         [] key = Char("q") ->
              /\ should_quit' = TRUE
              /\ UNCHANGED joinVars
         [] key.code = "Char" /\ key # Char("q") ->
              /\ join_password' = PushCapped(join_password, key.ch, PasswordCap)
              /\ UNCHANGED <<editing_join_password, should_quit>>
         [] OTHER -> UNCHANGED <<joinVars, should_quit>>
    /\ UNCHANGED <<screen, board_cursor, pvp_game, lobbyVars, formVars, info_message>>
    /\ KeyDone(key, "none", <<>>)
\* handle_pvp_lobby_key while editing_join_password
LobbyEditKey(key) ==
    /\ CASE key.code \in {"Esc", "Enter"} ->
              /\ editing_join_password' = FALSE
              /\ UNCHANGED join_password
         [] key.code = "Backspace" ->
              /\ join_password' = Pop(join_password)
              /\ UNCHANGED editing_join_password
         [] key.code = "Char" ->
              /\ join_password' = PushCapped(join_password, key.ch, PasswordCap)
              /\ UNCHANGED editing_join_password
         [] OTHER -> UNCHANGED joinVars
    /\ UNCHANGED <<screen, board_cursor, pvp_game, lobbyVars, formVars, info_message,
                   should_quit>>
    /\ KeyDone(key, "none", <<>>)

\* OpenCreateForm that shows the form as it was left
OpenCreateFormKeepsText ==
    /\ screen' = "PvpCreate"
    /\ UNCHANGED formVars
\* the create-game arm of handle_pvp_lobby_key
OpenCreateForm ==
    /\ create_name' = <<>>
    /\ create_password' = <<>>
    /\ create_field_index' = 0
    /\ screen' = "PvpCreate"

\* handle_pvp_lobby_key in normal mode
LobbyNormalKey(key, E) ==
    CASE key = Char("b") ->
           /\ screen' = "Home"
           /\ UNCHANGED <<board_cursor, pvp_game, lobbyVars, formVars, joinVars,
                          info_message, should_quit>>
           /\ KeyDone(key, "none", <<>>)
      [] key = Char("q") ->
           /\ should_quit' = TRUE
           /\ UNCHANGED <<screen, board_cursor, pvp_game, lobbyVars, formVars, joinVars,
                          info_message>>
           /\ KeyDone(key, "none", <<>>)
      [] key.code = "Up" ->
           /\ pvp_selected_index' = LobbyUp(pvp_selected_index)
           /\ UNCHANGED <<screen, board_cursor, pvp_game, pvp_games, formVars, joinVars,
                          info_message, should_quit>>
           /\ KeyDone(key, "none", <<>>)
      [] key.code = "Down" ->
           /\ pvp_selected_index' = LobbyDown(pvp_selected_index, Len(pvp_games))
           /\ UNCHANGED <<screen, board_cursor, pvp_game, pvp_games, formVars, joinVars,
                          info_message, should_quit>>
           /\ KeyDone(key, "none", <<>>)
      [] key = Char("r") ->
           \E r \in E.list :
              /\ IF r.ok THEN LobbyRefreshOk(r.val) ELSE LobbyRefreshErr(r.err)
              /\ UNCHANGED <<board_cursor, pvp_game, formVars, joinVars, should_quit>>
              /\ KeyDone(key, IF r.ok THEN "ok" ELSE "err", <<ListOpenCall>>)
      [] key = Char("c") ->
           /\ OpenCreateForm
           /\ UNCHANGED <<board_cursor, pvp_game, lobbyVars, joinVars, info_message,
                          should_quit>>
           /\ KeyDone(key, "none", <<>>)
      [] key = Char("p") ->
           /\ editing_join_password' = TRUE
           /\ UNCHANGED <<screen, board_cursor, pvp_game, lobbyVars, formVars,
                          join_password, info_message, should_quit>>
           /\ KeyDone(key, "none", <<>>)
      [] (key = Char("j") \/ key.code = "Enter")
            /\ pvp_games # <<>> /\ pvp_selected_index < Len(pvp_games) ->
           LET game == pvp_games[pvp_selected_index + 1]
               password == JoinPasswordFor(game, join_password)
           IN  \E r \in E.join :
                  /\ IF r.ok THEN LobbyJoinOk(r.val) ELSE LobbyJoinErr(r.err)
                  /\ UNCHANGED <<lobbyVars, formVars, joinVars, should_quit>>
                  /\ KeyDone(key, IF r.ok THEN "ok" ELSE "err",
                             <<JoinPvpCall(player_id, game.id, password)>>)
      [] OTHER ->
           /\ UNCHANGED <<screen, board_cursor, pvp_game, lobbyVars, formVars, joinVars,
                          info_message, should_quit>>
           /\ KeyDone(key, "none", <<>>)

HandlePvpLobbyKey(key, E) ==
    /\ pc = "event"
    /\ screen = "PvpLobby"
    /\ UNCHANGED <<home_index, solo_game, game_over_message>>
    /\ IF editing_join_password THEN LobbyEditKey(key) ELSE LobbyNormalKey(key, E)

CreatePvpOk(game) ==
    /\ pvp_game' = Some(game)
    /\ screen' = "PvpGame"
    /\ UNCHANGED info_message

CreatePvpErr(err) ==
    /\ ShowError(InfoText("Create game failed: ", err))
    /\ UNCHANGED pvp_game

\* CreateCancelled that also forgets the game played before
CreateCancelledDropsView ==
    /\ screen' = "PvpLobby"
    /\ pvp_game' = None
    /\ UNCHANGED <<formVars, info_message>>
\* the cancel arm of handle_pvp_create_key
CreateCancelled ==
    /\ screen' = "PvpLobby"
    /\ UNCHANGED <<pvp_game, formVars, info_message>>

\* the key typed into the focused field of the create form
CreateType(name, password, field, ch) ==
    IF field = 0
    THEN <<PushCapped(name, ch, NameCap), password>>
    ELSE <<name, PushCapped(password, ch, PasswordCap)>>

HandlePvpCreateKey(key, E) ==
    /\ pc = "event"
    /\ screen = "PvpCreate"
    /\ UNCHANGED <<home_index, board_cursor, solo_game, lobbyVars, joinVars,
                   game_over_message, should_quit>>
    /\ CASE key.code = "Esc" \/ key = Char("b") ->
              /\ CreateCancelled
              /\ KeyDone(key, "none", <<>>)
         [] key.code \in {"Tab", "Down", "Up"} ->
              /\ create_field_index' = (create_field_index + 1) % 2
              /\ UNCHANGED <<screen, pvp_game, create_name, create_password, info_message>>
              /\ KeyDone(key, "none", <<>>)
         [] key.code = "Backspace" ->
              /\ IF create_field_index = 0
                 THEN create_name' = Pop(create_name) /\ UNCHANGED create_password
                 ELSE create_password' = Pop(create_password) /\ UNCHANGED create_name
              /\ UNCHANGED <<screen, pvp_game, create_field_index, info_message>>
              /\ KeyDone(key, "none", <<>>)
         [] key.code = "Enter" /\ NameTooShort(create_name) ->
              /\ ShowError(NameTooShortText)
              /\ UNCHANGED <<pvp_game, formVars>>
              /\ KeyDone(key, "invalid", <<>>)
         [] key.code = "Enter" /\ ~NameTooShort(create_name) ->
              \E r \in E.create :
                 /\ IF r.ok THEN CreatePvpOk(r.val) ELSE CreatePvpErr(r.err)
                 /\ UNCHANGED formVars
                 /\ KeyDone(key, IF r.ok THEN "ok" ELSE "err",
                            <<CreatePvpCall(player_id, Trim(create_name),
                                            CreatePasswordFor(create_password))>>)
         [] key.code = "Char" /\ key # Char("b") ->
              /\ create_name' =
                    CreateType(create_name, create_password, create_field_index, key.ch)[1]
              /\ create_password' =
                    CreateType(create_name, create_password, create_field_index, key.ch)[2]
              /\ UNCHANGED <<screen, pvp_game, create_field_index, info_message>>
              /\ KeyDone(key, "none", <<>>)
         [] OTHER ->
              /\ UNCHANGED <<screen, pvp_game, formVars, info_message>>
              /\ KeyDone(key, "none", <<>>)

\* HandleGameOverKey without the menu key
HandleGameOverKeyNoMenu(key) ==
    /\ pc = "event"
    /\ screen = "GameOver"
    /\ UNCHANGED <<home_index, board_cursor, gameVars, lobbyVars, formVars, joinVars,
                   msgVars>>
    /\ CASE key = Char("q") -> should_quit' = TRUE /\ UNCHANGED screen
         [] key.code \in {"Enter", "Esc"} \/ key = Char("b") ->
              screen' = "Home" /\ UNCHANGED should_quit
         [] OTHER -> UNCHANGED <<screen, should_quit>>
    /\ KeyDone(key, "none", <<>>)

HandleGameOverKey(key) ==
    /\ pc = "event"
    /\ screen = "GameOver"
    /\ UNCHANGED <<home_index, board_cursor, gameVars, lobbyVars, formVars, joinVars,
                   msgVars>>
    /\ CASE key = Char("q") -> should_quit' = TRUE /\ UNCHANGED screen
         [] key.code \in {"Enter", "Esc"} \/ key \in {Char("b"), Char("m")} ->
              screen' = "Home" /\ UNCHANGED should_quit
         [] OTHER -> UNCHANGED <<screen, should_quit>>
    /\ KeyDone(key, "none", <<>>)

\* HandleInfoKey that lets any key dismiss the message
HandleInfoKeyAnyKey(key) ==
    /\ pc = "event"
    /\ screen = "Info"
    /\ UNCHANGED <<home_index, board_cursor, gameVars, lobbyVars, formVars, joinVars,
                   msgVars, should_quit>>
    /\ screen' = "Home"
    /\ KeyDone(key, "none", <<>>)

\* HandleInfoKey that dismisses the message on no key at all
HandleInfoKeyIgnoresAll(key) ==
    /\ pc = "event"
    /\ screen = "Info"
    /\ UNCHANGED <<screen, home_index, board_cursor, gameVars, lobbyVars, formVars,
                   joinVars, msgVars, should_quit>>
    /\ KeyDone(key, "none", <<>>)

HandleInfoKey(key) ==
    /\ pc = "event"
    /\ screen = "Info"
    /\ UNCHANGED <<home_index, board_cursor, gameVars, lobbyVars, formVars, joinVars,
                   msgVars, should_quit>>
    /\ IF key.code \in {"Enter", "Esc"} \/ key = Char("b")
       THEN screen' = "Home"
       ELSE UNCHANGED screen
    /\ KeyDone(key, "none", <<>>)

----------------------------------------------------------------------------
(* The environment: the keys the user presses and the replies of the       *)
(* remote service.  K is a set of keys; E gives, for each remote           *)
(* operation, the set of results it may return.                            *)

\* the user types no more than MaxText characters into one buffer
MaxText == 1
FocusedBuffer ==
    IF screen = "PvpCreate"
    THEN IF create_field_index = 0 THEN create_name ELSE create_password
    ELSE join_password
Typable(key) == key.code = "Char" => Len(FocusedBuffer) < MaxText

\* the steps of a session of at most n key events
Next(K, E, n) ==
    \/ TimePasses
    \/ RefreshRemoteStateIfNeeded(E)
    \/ Draw
    \/ NoKeyEvent
    \/ \E key \in K : nkeys < n /\ HandleHomeKey(key, E)
    \/ \E key \in K : nkeys < n /\ HandleSoloKey(key, E)
    \/ \E key \in K :
          /\ nkeys < n
          /\ editing_join_password => Typable(key)
          /\ HandlePvpLobbyKey(key, E)
    \/ \E key \in K : nkeys < n /\ Typable(key) /\ HandlePvpCreateKey(key, E)
    \/ \E key \in K : nkeys < n /\ HandlePvpGameKey(key, E)
    \/ \E key \in K : nkeys < n /\ HandleGameOverKey(key)
    \/ \E key \in K : nkeys < n /\ HandleInfoKey(key)

Results(values, errs) == {Ok(v) : v \in values} \cup {Err(e) : e \in errs}

\* all sequences over S of length at most n
RECURSIVE SeqsUpTo(_, _)
SeqsUpTo(S, n) ==
    IF n = 0 THEN {<<>>}
    ELSE LET shorter == SeqsUpTo(S, n - 1)
         IN  shorter \cup {Append(q, x) : q \in shorter, x \in S}

Env(views, lists, errs) ==
    [solo |-> Results(views, errs), create |-> Results(views, errs),
     join |-> Results(views, errs), get |-> Results(views, errs),
     move |-> Results(views, errs), list |-> Results(lists, errs)]

\* open games as the lobby lists them
OpenGame(id, pw) ==
    ApiGame(id, "pvp", other_id, None, EmptyBoard, "X", "IN_PROGRESS", None, pw)

\* the lobby lists hold at most MaxLobby games: every other one is gated
MaxLobby == 2
OpenIds == <<"g1", "g2", "g5", "g6">>
OpenList(n) == [i \in 1..n |-> OpenGame(OpenIds[i], i % 2 = 0)]
Lists == {OpenList(n) : n \in 0..Min(MaxLobby, Len(OpenIds))}

\* who the player is in a game: host, guest, neither or both
AsHost == <<player_id, None>>
AsGuest == <<other_id, Some(player_id)>>
AsNeither == <<other_id, None>>
AsBoth == <<player_id, Some(player_id)>>

\* status and winner as the service reports them
Running == <<"IN_PROGRESS", None>>
WonBy(symbol) == <<"WON", Some(symbol)>>
Drawn == <<"DRAW", None>>

ViewsOf(ids, memberships, turns, outcomes) ==
    {ApiGame(id, "pvp", m[1], m[2], EmptyBoard, t, o[1], o[2], FALSE) :
        id \in ids, m \in memberships, t \in turns, o \in outcomes}

(* Spec: sessions that start at construction.  The keys are one of each kind *)
(* the handlers read and one they ignore.                                    *)
NavKeys ==
    {Key("Up"), Key("Down"), Key("Enter"), Key("Esc"), Key("Right"), Key("F1"),
     Char("q"), Char("b"), Char("m"), Char("r"), Char("c"), Char("p"), Char("j"),
     Char(" "), Char("5")}

NavViews ==
    ViewsOf({"g1"}, {AsHost, AsGuest, AsNeither}, {"X", "O"}, {Running, WonBy("X"), Drawn})

NavEnv == Env(NavViews, Lists, {ErrStatus, ErrShape})

\* a session of Spec dispatches at most this many key events
MaxKeys == 4

NavNext == Next(NavKeys, NavEnv, MaxKeys)

Spec == Init /\ [][NavNext]_vars

(* SpecForms: sessions that start at construction, in the lobby or on the    *)
(* create form, with text already typed.  The lobby was entered from Home    *)
(* item 1 and lists an open game and a password-gated one.                   *)
\* the create form starts with a name of at most MaxNameText characters
MaxNameText == 4
\* a password buffer starts with at most MaxPasswordText characters
MaxPasswordText == 2
NameTexts == SeqsUpTo({"a", " ", WideChar}, MaxNameText)
PasswordTexts == SeqsUpTo({"a", " "}, MaxPasswordText)

FormLobby == <<OpenGame("g1", FALSE), OpenGame("g2", TRUE)>>

FormsStart(s, index, name, password, field, join, editing) ==
    /\ screen = s
    /\ home_index = 1
    /\ board_cursor = 0
    /\ solo_game = None
    /\ pvp_game = None
    /\ pvp_games = FormLobby
    /\ pvp_selected_index = index
    /\ create_name = name
    /\ create_password = password
    /\ create_field_index = field
    /\ join_password = join
    /\ editing_join_password = editing
    /\ game_over_message = <<>>
    /\ info_message = <<>>
    /\ should_quit = FALSE
    /\ elapsed = 0
    /\ since_fetch = PollInterval
    /\ failed = FALSE
    /\ pc = "refresh"
    /\ ev = [op |-> "init", key |-> NoKey, res |-> "none"]
    /\ pre = Snapshot
    /\ calls = <<>>
    /\ nkeys = 0

InitForms ==
    \/ Init
    \/ \E index \in {0, 1}, join \in PasswordTexts, editing \in BOOLEAN :
          FormsStart("PvpLobby", index, <<>>, <<>>, 0, join, editing)
    \/ \E name \in NameTexts :
          FormsStart("PvpCreate", 0, name, <<>>, 0, <<>>, FALSE)
    \/ \E password \in PasswordTexts :
          FormsStart("PvpCreate", 0, <<"a", "a", "a">>, password, 1, <<>>, FALSE)

FormKeys ==
    {Key("Enter"), Key("Esc"), Key("Tab"), Key("Backspace"), Key("Down"),
     Char("a"), Char(" "), Char("j"), Char("p"), Char("r"), Char("c")}

FormViews == ViewsOf({"g2"}, {AsHost, AsGuest}, {"X"}, {Running, WonBy("O")})

FormEnv == Env(FormViews, {<<>>, FormLobby}, {ErrStatus})

\* a session of SpecForms dispatches at most this many key events
MaxFormKeys == 2

FormsNext == Next(FormKeys, FormEnv, MaxFormKeys)

SpecForms == InitForms /\ [][FormsNext]_vars

(* SpecGame: sessions that start in a game, or on a screen reached by        *)
(* leaving a game with 'b', with the cursor wherever the game left it.       *)
GameStart(s, index, cursor, solo, pvp, games, name) ==
    /\ screen = s
    /\ home_index = index
    /\ board_cursor = cursor
    /\ solo_game = solo
    /\ pvp_game = pvp
    /\ pvp_games = games
    /\ pvp_selected_index = 0
    /\ create_name = name
    /\ create_password = <<>>
    /\ create_field_index = 0
    /\ join_password = <<>>
    /\ editing_join_password = FALSE
    /\ game_over_message = <<>>
    /\ info_message = <<>>
    /\ should_quit = FALSE
    /\ elapsed = 0
    /\ since_fetch = PollInterval
    /\ failed = FALSE
    /\ pc = "refresh"
    /\ ev = [op |-> "init", key |-> NoKey, res |-> "none"]
    /\ pre = Snapshot
    /\ calls = <<>>
    /\ nkeys = 0

\* the views a game screen starts with
StartViews == ViewsOf({"g1"}, {AsHost, AsGuest}, {"X"}, {Running})

InitGame ==
    \E cursor \in 0..8, view \in StartViews :
        \/ GameStart("SoloGame", 0, cursor, Some(view), None, <<>>, <<>>)
        \/ \E index \in 0..2 : GameStart("Home", index, cursor, Some(view), None, <<>>, <<>>)
        \/ GameStart("PvpGame", 1, cursor, None, Some(view), FormLobby, <<>>)
        \/ GameStart("PvpLobby", 1, cursor, None, Some(view), FormLobby, <<>>)
        \/ GameStart("PvpCreate", 1, cursor, None, Some(view), FormLobby, <<"a", "a", "a">>)

GameKeys ==
    {Key("Left"), Key("Right"), Key("Up"), Key("Down"), Key("Enter"),
     Char("0"), Char("1"), Char("2"), Char("3"), Char("4"), Char("5"), Char("6"),
     Char("7"), Char("8"), Char("9"), Char("b"), Char("q")}

\* current_turn is a String: a game of two other players whose turn reads "?"
StrangerView ==
    ApiGame("g4", "pvp", other_id, None, EmptyBoard, "?", "IN_PROGRESS", None, FALSE)

\* one of the views has a board of 8 cells
GameViews ==
    ViewsOf({"g2"}, {AsHost, AsGuest}, {"X", "O"}, {Running, WonBy("X"), Drawn})
        \cup {ApiGame("g3", "pvp", player_id, None, ShortBoard, "X", "IN_PROGRESS", None, FALSE)}
        \cup {StrangerView}

GameEnv == Env(GameViews, {<<>>, FormLobby}, {ErrStatus})

\* a session of SpecGame dispatches at most this many key events
MaxGameKeys == 2

GameNext == Next(GameKeys, GameEnv, MaxGameKeys)

SpecGame == InitGame /\ [][GameNext]_vars

(* SpecCaps: sessions that start on the create form or in the lobby with a   *)
(* buffer filled to its cap or just below it, after a game was played.  Keys *)
(* are pressed on these two screens only.                                    *)
Filled(n) == [i \in 1..n |-> "a"]
\* texts of cap - 1 and of cap bytes; the last one ends in a two-byte character
TextsNear(cap) == {Filled(cap - 1), Filled(cap), Append(Filled(cap - 2), WideChar)}

CapsStart(s, name, password, field, join, editing) ==
    /\ screen = s
    /\ home_index = 1
    /\ board_cursor = 4
    /\ solo_game = None
    /\ pvp_game \in {Some(view) : view \in StartViews}
    /\ pvp_games = FormLobby
    /\ pvp_selected_index = 1
    /\ create_name = name
    /\ create_password = password
    /\ create_field_index = field
    /\ join_password = join
    /\ editing_join_password = editing
    /\ game_over_message = <<>>
    /\ info_message = <<>>
    /\ should_quit = FALSE
    /\ elapsed = 0
    /\ since_fetch = PollInterval
    /\ failed = FALSE
    /\ pc = "refresh"
    /\ ev = [op |-> "init", key |-> NoKey, res |-> "none"]
    /\ pre = Snapshot
    /\ calls = <<>>
    /\ nkeys = 0

InitCaps ==
    \/ \E name \in TextsNear(NameCap) :
          CapsStart("PvpCreate", name, <<>>, 0, <<>>, FALSE)
    \/ \E password \in TextsNear(PasswordCap) :
          CapsStart("PvpCreate", <<"a", "a", "a">>, password, 1, <<>>, FALSE)
    \/ \E join \in TextsNear(PasswordCap), editing \in BOOLEAN :
          CapsStart("PvpLobby", <<>>, <<>>, 0, join, editing)

CapKeys ==
    {Key("Enter"), Key("Esc"), Key("Tab"), Key("Up"), Key("Down"), Key("Backspace"),
     Key("F1"), Char("a"), Char(WideChar), Char("b"), Char("q"), Char("j"), Char("r"),
     Char("c"), Char("p")}

CapEnv == Env(FormViews, {<<>>, FormLobby}, {ErrStatus})

\* a session of SpecCaps dispatches at most this many key events
MaxCapKeys == 2

CapsNext ==
    \/ TimePasses
    \/ RefreshRemoteStateIfNeeded(CapEnv)
    \/ Draw
    \/ NoKeyEvent
    \/ \E key \in CapKeys : nkeys < MaxCapKeys /\ HandlePvpLobbyKey(key, CapEnv)
    \/ \E key \in CapKeys : nkeys < MaxCapKeys /\ HandlePvpCreateKey(key, CapEnv)

SpecCaps == InitCaps /\ [][CapsNext]_vars

(* SpecQuit: sessions in which the user, after at most MaxPlayKeys keys of   *)
(* any kind, wants to leave and presses the key that leads out of the        *)
(* current screen until the session ends.                                    *)
\* handle_key: the handler of the current screen
HandleKey(key, E) ==
    \/ HandleHomeKey(key, E)
    \/ HandleSoloKey(key, E)
    \/ HandlePvpLobbyKey(key, E)
    \/ HandlePvpCreateKey(key, E)
    \/ HandlePvpGameKey(key, E)
    \/ HandleGameOverKey(key)
    \/ HandleInfoKey(key)

\* the way out: dismiss the message, cancel the form, stop editing, else quit
QuitKeyFor ==
    CASE screen = "Info" -> Key("Enter")
      [] screen = "PvpCreate" -> Key("Esc")
      [] screen = "PvpLobby" /\ editing_join_password -> Key("Esc")
      [] OTHER -> Char("q")

InitQuit ==
    \/ Init
    \/ \E view \in StartViews :
          \/ GameStart("SoloGame", 0, 4, Some(view), None, <<>>, <<>>)
          \/ GameStart("PvpGame", 1, 4, None, Some(view), FormLobby, <<>>)
          \/ GameStart("PvpLobby", 1, 4, None, Some(view), FormLobby, <<>>)
          \/ GameStart("PvpCreate", 1, 4, None, Some(view), FormLobby, <<"a", "a", "a">>)
    \/ \E join \in PasswordTexts :
          FormsStart("PvpLobby", 0, <<>>, <<>>, 0, join, TRUE)

PlayKeys ==
    {Key("Enter"), Key("Esc"), Key("Down"), Key("F1"), Char(" "), Char("a"),
     Char("b"), Char("c"), Char("p"), Char("q")}

QuitEnv == Env(FormViews, {<<>>, FormLobby}, {ErrStatus})

\* keys of any kind, and then keys on the way out
MaxPlayKeys == 2
MaxQuitKeys == 2

PlayStep == \E key \in PlayKeys : nkeys < MaxPlayKeys /\ HandleKey(key, QuitEnv)
QuitStep == nkeys < MaxPlayKeys + MaxQuitKeys /\ HandleKey(QuitKeyFor, QuitEnv)

QuitNext ==
    \/ TimePasses
    \/ RefreshRemoteStateIfNeeded(QuitEnv)
    \/ Draw
    \/ NoKeyEvent
    \/ PlayStep
    \/ QuitStep

SpecQuit ==
    /\ InitQuit
    /\ [][QuitNext]_vars
    /\ WF_vars(RefreshRemoteStateIfNeeded(QuitEnv))
    /\ WF_vars(Draw)
    /\ SF_vars(QuitStep)

(* SpecPoll: sessions left alone on PvpGame or on PvpLobby: no key is        *)
(* pressed.  The loop keeps turning, since event::poll returns after 120 ms  *)
(* whether or not a key arrived, and the clock advances; a fetch that can    *)
(* succeed with a finished game again and again does so at some time.        *)
InitPoll ==
    \E cursor \in 0..8, view \in StartViews :
        \/ GameStart("PvpGame", 1, cursor, None, Some(view), FormLobby, <<>>)
        \/ GameStart("PvpLobby", 1, cursor, None, Some(view), FormLobby, <<>>)

PollNext ==
    \/ TimePasses
    \/ RefreshRemoteStateIfNeeded(GameEnv)
    \/ Draw
    \/ NoKeyEvent

\* the poller's fetch of the cached game succeeds and reports WON or DRAW
TerminalFetch ==
    /\ screen = "PvpGame"
    /\ RefreshRemoteStateIfNeeded(GameEnv)
    /\ ev'.res = "ok"
    /\ IsGameFinished(pvp_game'[1])

SpecPoll ==
    /\ InitPoll
    /\ [][PollNext]_vars
    /\ WF_vars(TimePasses)
    /\ WF_vars(RefreshRemoteStateIfNeeded(GameEnv))
    /\ WF_vars(Draw)
    /\ WF_vars(NoKeyEvent)
    /\ SF_vars(TerminalFetch)

----------------------------------------------------------------------------
(* Properties.  ev, pre and calls describe the step taken last: a state      *)
(* predicate over them and the current fields states what that step did.     *)

AfterKeyOn(s) == ev.op = "key" /\ pre.screen = s
AfterConfirmOn(s) == AfterKeyOn(s) /\ (ev.key = Key("Enter") \/ ev.key = Char(" "))
AfterPollOn(s) == ev.op = "refresh" /\ pre.screen = s

\* the view the game screen showed before the step
ViewBefore ==
    IF pre.screen = "SoloGame" THEN pre.solo_game
    ELSE IF pre.screen = "PvpGame" THEN pre.pvp_game
    ELSE None

\* the player's symbol in a view, as the specification derives it
DerivedSymbol(view) ==
    CASE view.host_player_id = player_id -> "X"
      [] view.host_player_id # player_id /\ view.guest_player_id = Some(player_id) -> "O"
      [] OTHER -> "?"

Contains(message, piece) == \E i \in DOMAIN message : message[i] = piece

(* C1: on SoloGame and on PvpGame, a confirm key pressed while the cached     *)
(* game is not IN_PROGRESS, or while the player's derived symbol differs from *)
(* current_turn, issues no remote call.                                       *)
(* Violated on SoloGame, where the turn test is current_turn = "X".           *)
C1_GatedConfirmIssuesNoCall ==
    \A s \in {"SoloGame", "PvpGame"} :
        (/\ AfterConfirmOn(s)
         /\ ViewBefore # None
         /\ \/ ViewBefore[1].status # "IN_PROGRESS"
            \/ DerivedSymbol(ViewBefore[1]) # ViewBefore[1].current_turn)
        => calls = <<>>

(* C2: no play_move is issued for a game whose cached view is not            *)
(* IN_PROGRESS: every play_move names the view the game screen showed, and   *)
(* that view was IN_PROGRESS.                                                *)
C2_NoMoveOnFinishedGame ==
    \A i \in DOMAIN calls :
        calls[i].op = "play_move" =>
            /\ ViewBefore # None
            /\ ViewBefore[1].status = "IN_PROGRESS"
            /\ calls[i].game_id = Some(ViewBefore[1].id)

C2_Witness ==
    /\ AfterConfirmOn("PvpGame")
    /\ pre.pvp_game # None
    /\ pre.pvp_game[1].status \in {"WON", "DRAW"}
    /\ DerivedSymbol(pre.pvp_game[1]) = pre.pvp_game[1].current_turn
    /\ calls = <<>>

(* C3: a poller fetch that fails on PvpLobby or PvpGame leaves the lobby     *)
(* list, the selection index, the pvp view, the screen and the info message  *)
(* as they were; the screen does not become Info.                            *)
C3_PollFailureChangesNothing ==
    (ev.op = "refresh" /\ ev.res = "err") =>
        /\ pre.screen \in {"PvpLobby", "PvpGame"}
        /\ calls # <<>>
        /\ pvp_games = pre.pvp_games
        /\ pvp_selected_index = pre.pvp_selected_index
        /\ pvp_game = pre.pvp_game
        /\ screen = pre.screen
        /\ screen # "Info"
        /\ info_message = pre.info_message

C3_Witness ==
    /\ AfterPollOn("PvpGame")
    /\ ev.res = "err"
    /\ calls = <<GetGameCall(pvp_game[1].id)>>
    /\ pvp_games # <<>>
    /\ screen = "PvpGame"

(* C4: a user-initiated remote call that fails (create_solo, list_open from *)
(* Home or from the manual refresh, join_pvp, create_pvp, play_move) sets    *)
(* the screen to Info with a message and leaves the solo view, the pvp view  *)
(* and the lobby list as they were before the key.                           *)
C4_CallFailureShowsInfo ==
    (ev.op = "key" /\ ev.res = "err") =>
        /\ Len(calls) = 1
        /\ calls[1].op \in {"create_solo_game", "list_open_pvp_games", "join_pvp_game",
                           "create_pvp_game", "play_move"}
        /\ screen = "Info"
        /\ info_message # <<>>
        /\ solo_game = pre.solo_game
        /\ pvp_game = pre.pvp_game
        /\ pvp_games = pre.pvp_games

C4_Witness ==
    /\ AfterConfirmOn("PvpGame")
    /\ ev.res = "err"
    /\ calls[1].op = "play_move"
    /\ screen = "Info"
    /\ pvp_game # None
    /\ pvp_game = pre.pvp_game
    /\ pvp_games # <<>>

(* C5: when a move reply or a poll reply ends the game, the GameOver message *)
(* says "You won!" if the status is WON and the winner is the player's       *)
(* derived symbol, "You lost." if the status is WON and the winner is        *)
(* anything else, and for DRAW it is the draw line with no winner and no     *)
(* won or lost text.                                                         *)
EnteredGameOver ==
    /\ ev.op \in {"key", "refresh"}
    /\ pre.screen \in {"SoloGame", "PvpGame"}
    /\ screen = "GameOver"

\* the reply that ended the game: the handlers cache it
EndingReply == IF pre.screen = "SoloGame" THEN solo_game[1] ELSE pvp_game[1]

C5_GameOverMessage ==
    EnteredGameOver =>
        LET g == EndingReply
            won == Contains(game_over_message, "You won!")
            lost == Contains(game_over_message, "You lost.")
        IN  /\ g.status \in {"WON", "DRAW"}
            /\ (g.status = "WON" /\ g.winner = Some(DerivedSymbol(g))) => (won /\ ~lost)
            /\ (g.status = "WON" /\ g.winner # Some(DerivedSymbol(g))) => (lost /\ ~won)
            /\ g.status = "DRAW" =>
                  /\ Contains(game_over_message, "Result: Draw")
                  /\ ~Contains(game_over_message, "Winner: ")
                  /\ ~won
                  /\ ~lost

C5_Witness ==
    /\ EnteredGameOver
    /\ ev.op = "refresh"
    /\ EndingReply.status = "WON"
    /\ EndingReply.winner = Some("X")
    /\ DerivedSymbol(EndingReply) = "O"
    /\ Contains(game_over_message, "You lost.")

(* C6: a join issued from PvpLobby names the selected entry and carries a   *)
(* password if and only if that entry is password-gated and the              *)
(* join-password buffer is not empty; the password is then the buffer,       *)
(* unchanged.                                                                *)
C6_JoinPassword ==
    \A i \in DOMAIN calls :
        calls[i].op = "join_pvp_game" =>
            /\ pre.screen = "PvpLobby"
            /\ pre.pvp_selected_index < Len(pre.pvp_games)
            /\ LET entry == pre.pvp_games[pre.pvp_selected_index + 1]
               IN  /\ calls[i].game_id = Some(entry.id)
                   /\ calls[i].password =
                         (IF entry.has_password /\ pre.join_password # <<>>
                          THEN Some(pre.join_password)
                          ELSE None)

C6_Witness ==
    /\ AfterKeyOn("PvpLobby")
    /\ Len(calls) = 1
    /\ calls[1].op = "join_pvp_game"
    /\ pre.pvp_games[pre.pvp_selected_index + 1].has_password
    /\ pre.join_password = <<" ", "a">>
    /\ calls[1].password = Some(<<" ", "a">>)

(* C7: on PvpCreate, confirm with a trimmed name shorter than 3 characters   *)
(* issues no remote call and shows the validation message on Info; confirm   *)
(* with a trimmed name of 3 characters or more issues exactly one create_pvp *)
(* with the trimmed name, and with the trimmed password, or with none when   *)
(* the trimmed password is empty.                                            *)
(* Violated by a name of 2 characters and 3 bytes: the length tested is the  *)
(* byte length.                                                              *)
C7_CreateValidation ==
    (AfterKeyOn("PvpCreate") /\ ev.key = Key("Enter")) =>
        LET name == Trim(pre.create_name)
            password == Trim(pre.create_password)
        IN  IF Len(name) < 3
            THEN /\ calls = <<>>
                 /\ screen = "Info"
                 /\ info_message = NameTooShortText
            ELSE calls = <<CreatePvpCall(player_id, name,
                                         IF password = <<>> THEN None ELSE Some(password))>>

(* C8: a confirm key pressed on a game screen while the cached game is       *)
(* IN_PROGRESS and it is the player's turn issues exactly one play_move, with *)
(* the player identity, the id of that screen's view and the cursor.         *)
(* Violated on SoloGame when the player's symbol and current_turn are "O".   *)
C8_ConfirmIssuesOneMove ==
    \A s \in {"SoloGame", "PvpGame"} :
        (/\ AfterConfirmOn(s)
         /\ ViewBefore # None
         /\ ViewBefore[1].status = "IN_PROGRESS"
         /\ DerivedSymbol(ViewBefore[1]) = ViewBefore[1].current_turn)
        => calls = <<PlayMoveCall(player_id, ViewBefore[1].id, pre.board_cursor)>>

(* C9: the lobby selection index is below the length of the lobby list when  *)
(* the list is not empty, and is 0 when it is empty.                         *)
C9_LobbyIndexInBounds ==
    IF pvp_games = <<>>
    THEN pvp_selected_index = 0
    ELSE pvp_selected_index \in 0..(Len(pvp_games) - 1)

C9_Witness ==
    /\ AfterPollOn("PvpLobby")
    /\ ev.res = "ok"
    /\ Len(pre.pvp_games) = 1
    /\ pre.pvp_selected_index = 0
    /\ pvp_games = <<>>
    /\ pvp_selected_index = 0

(* C10: on Home the selection index stays in 0..2 and never wraps: Up at 0   *)
(* leaves it at 0, Down at 2 leaves it at 2, and otherwise they move it by   *)
(* one.                                                                      *)
C10_HomeIndexClamped ==
    /\ home_index \in 0..2
    /\ (AfterKeyOn("Home") /\ ev.key = Key("Up")) =>
          home_index = (IF pre.home_index = 0 THEN 0 ELSE pre.home_index - 1)
    /\ (AfterKeyOn("Home") /\ ev.key = Key("Down")) =>
          home_index = (IF pre.home_index = 2 THEN 2 ELSE pre.home_index + 1)

C10_Witness ==
    /\ AfterKeyOn("Home")
    /\ ev.key = Key("Down")
    /\ pre.home_index = 2
    /\ home_index = 2

(* C11: on SoloGame and PvpGame the board cursor stays in 0..8; an arrow    *)
(* key changes the row or the column alone, by one, and holds position at an *)
(* edge; a digit key d in 1..9 sets the cursor to d - 1 whatever it was.     *)
CursorKeyOnGame ==
    /\ ev.op = "key"
    /\ pre.screen \in {"SoloGame", "PvpGame"}
    /\ ev.key \notin {Char("b"), Char("q")}

C11_CursorStaysOnBoard ==
    /\ board_cursor \in 0..8
    /\ CursorKeyOnGame =>
          LET row == pre.board_cursor \div 3
              col == pre.board_cursor % 3
              next_row == board_cursor \div 3
              next_col == board_cursor % 3
              digits == <<"1", "2", "3", "4", "5", "6", "7", "8", "9">>
          IN  CASE ev.key = Key("Left") ->
                      next_row = row /\ next_col = (IF col = 0 THEN 0 ELSE col - 1)
                [] ev.key = Key("Right") ->
                      next_row = row /\ next_col = (IF col = 2 THEN 2 ELSE col + 1)
                [] ev.key = Key("Up") ->
                      next_col = col /\ next_row = (IF row = 0 THEN 0 ELSE row - 1)
                [] ev.key = Key("Down") ->
                      next_col = col /\ next_row = (IF row = 2 THEN 2 ELSE row + 1)
                [] \E d \in 1..9 : ev.key = Char(digits[d]) ->
                      \A d \in 1..9 : ev.key = Char(digits[d]) => board_cursor = d - 1
                [] OTHER -> board_cursor = pre.board_cursor

C11_Witness ==
    /\ CursorKeyOnGame
    /\ ev.key = Key("Right")
    /\ pre.board_cursor = 2
    /\ board_cursor = 2
    /\ pre.screen = "PvpGame"

(* C12: every step that enters a game screen with a new game (create_solo   *)
(* success, join success, create_pvp success) leaves the board cursor at 0,  *)
(* whatever it was before.                                                   *)
(* Violated by create_pvp success, which keeps the cursor of the game played *)
(* before.                                                                   *)
EnteredNewGame ==
    /\ ev.op = "key"
    /\ ev.res = "ok"
    /\ Len(calls) = 1
    /\ calls[1].op \in {"create_solo_game", "join_pvp_game", "create_pvp_game"}

C12_NewGameResetsCursor ==
    EnteredNewGame => (screen \in {"SoloGame", "PvpGame"} /\ board_cursor = 0)

(* C13: should_quit becomes true only in a step that dispatches a quit      *)
(* input, the 'q' key or Enter on Home with item 2 selected; the loop of run *)
(* ends after a key step only when that step set should_quit, and never      *)
(* after a poll tick: a remote failure does not end the session.             *)
QuitInput ==
    /\ ev.op = "key"
    /\ \/ ev.key = Char("q")
       \/ pre.screen = "Home" /\ ev.key = Key("Enter") /\ pre.home_index = 2

C14_QuitKeyQuitsEverywhere ==
    (ev.op = "key" /\ ev.key = Char("q")) => (should_quit /\ pc = "done")

(* C15: a poll tick changes the screen if and only if the screen is PvpGame, *)
(* the fetch of the cached game succeeds and the fetched status is WON or    *)
(* DRAW; the screen is then GameOver, the message is the one a terminal move *)
(* reply on PvpGame composes, and the pvp view is the fetched view.  A       *)
(* successful fetch that is not terminal replaces the pvp view and keeps     *)
(* PvpGame.                                                                  *)
PvpGameOverMessage(g) ==
    <<"PvP", " game finished.\nGame id: ", g.id, "\n">> \o
        (IF g.status = "WON"
         THEN <<"Winner: ", IF g.winner = None THEN "Unknown" ELSE g.winner[1], " (",
                IF g.winner = Some(DerivedSymbol(g)) THEN "You won!" ELSE "You lost.", ")">>
         ELSE <<"Result: Draw">>)

PollFetched ==
    /\ AfterPollOn("PvpGame")
    /\ ev.res = "ok"
    /\ calls = <<GetGameCall(pre.pvp_game[1].id)>>

C15_PollEndsGame ==
    /\ ev.op = "refresh" =>
          /\ screen # pre.screen <=> (PollFetched /\ pvp_game[1].status \in {"WON", "DRAW"})
          /\ screen # pre.screen =>
                (screen = "GameOver" /\ game_over_message = PvpGameOverMessage(pvp_game[1]))
          /\ PollFetched => pvp_game # None /\ pvp_game[1] \in GameViews
          /\ ~PollFetched => pvp_game = pre.pvp_game
    /\ (AfterConfirmOn("PvpGame") /\ ev.res = "ok" /\ screen = "GameOver") =>
          game_over_message = PvpGameOverMessage(pvp_game[1])

C15_Witness ==
    /\ PollFetched
    /\ pre.pvp_game[1].status = "IN_PROGRESS"
    /\ pvp_game[1].status = "DRAW"
    /\ pvp_game # pre.pvp_game
    /\ screen = "GameOver"
    /\ game_over_message = <<"PvP", " game finished.\nGame id: ", "g2", "\n", "Result: Draw">>

(* C16: two consecutive fetches of the poller are at least 1 second apart,  *)
(* and every tick whose gate is open advances the poll timestamp, whether    *)
(* its fetch succeeds, fails or is not issued: a failing service is not      *)
(* polled again within the second.                                           *)
PollTick == pc = "refresh" /\ pc' = "draw"

C16_PollsOneSecondApart ==
    [][PollTick =>
          /\ calls' # <<>> => since_fetch >= PollInterval
          /\ elapsed >= PollInterval => elapsed' = 0
          /\ elapsed < PollInterval => (calls' = <<>> /\ elapsed' = elapsed)]_vars

C16_Witness ==
    /\ AfterPollOn("PvpLobby")
    /\ ev.res = "err"
    /\ calls = <<ListOpenCall>>
    /\ pc = "draw"
    /\ elapsed = 0
    /\ since_fetch = 0

(* C17: on Home, SoloGame, PvpCreate, GameOver and Info a poll tick issues   *)
(* no remote call and leaves the screen, both game views, the lobby list,    *)
(* the indices and the buffers unchanged.                                    *)
C17_PollerIdleElsewhere ==
    (ev.op = "refresh" /\ pre.screen \notin {"PvpLobby", "PvpGame"}) =>
        /\ calls = <<>>
        /\ Snapshot = pre

C17_Witness ==
    /\ AfterPollOn("PvpCreate")
    /\ ev.res = "none"
    /\ calls = <<>>
    /\ pvp_games # <<>>
    /\ Snapshot = pre

(* C18: a key event issues at most one remote call and a poll tick at most  *)
(* one; the reply of a call is consumed by the step that issues it; a failed *)
(* call is not issued again by the program: after the call of a key event    *)
(* failed, no remote call is issued until another key event is dispatched.   *)
KeyStep == nkeys' = nkeys + 1

C18_OneCallNoRetry ==
    [][/\ Len(calls') <= 1
       /\ ((PollTick \/ KeyStep) /\ calls' # <<>>) => ev'.res \in {"ok", "err"}
       /\ (failed /\ ~KeyStep) => (calls' = <<>> \/ calls' = calls)
       /\ (failed /\ PollTick) => calls' = <<>>]_vars

C18_Witness ==
    /\ failed
    /\ screen = "Info"
    /\ ev.op = "refresh"
    /\ ev.res = "none"
    /\ calls = <<>>
    /\ since_fetch = PollInterval

(* C19: an iteration of the loop of run is the conditional poll, then the   *)
(* render, then the dispatch of at most one key event; the fields of App do  *)
(* not change between the render and the dispatch, so a key acts on the      *)
(* state drawn last.                                                         *)
C19_TickOrder ==
    [][/\ pc = "refresh" => pc' \in {"refresh", "draw"}
       /\ pc = "draw" => pc' \in {"draw", "event", "panicked"}
       /\ pc = "event" => pc' \in {"event", "refresh", "done"}
       /\ pc \in {"done", "panicked"} => pc' = pc
       /\ (pc = "refresh" /\ pc' = "refresh") => Snapshot' = Snapshot
       /\ pc = "draw" => Snapshot' = Snapshot
       /\ (pc = "event" /\ ~KeyStep) => Snapshot' = Snapshot
       /\ KeyStep =>
             /\ pc = "event"
             /\ pc' \in {"refresh", "done"}
             /\ ev.op = "draw"
             /\ pre = Snapshot
             /\ pre' = pre]_vars

C19_Witness ==
    /\ AfterKeyOn("PvpLobby")
    /\ Len(calls) = 1
    /\ calls[1].op = "join_pvp_game"
    /\ pre.pvp_selected_index = 1
    /\ calls[1].game_id = Some(pre.pvp_games[2].id)
    /\ pc = "refresh"

(* C20: once the screen is Info it stays Info across every poll tick and    *)
(* every key other than Enter, Esc and 'b'; each of these three moves to     *)
(* Home, not to the screen on which the failed action was taken, and no key  *)
(* on Info issues a remote call.                                             *)
C20_InfoLeavesToHome ==
    /\ AfterKeyOn("Info") =>
          /\ calls = <<>>
          /\ screen = (IF ev.key \in {Key("Enter"), Key("Esc"), Char("b")}
                       THEN "Home" ELSE "Info")
    /\ AfterPollOn("Info") => (screen = "Info" /\ calls = <<>>)

C20_Witness ==
    /\ AfterKeyOn("Info")
    /\ ev.key = Key("Esc")
    /\ pre.info_message = <<"Move failed: ", ErrStatus>>
    /\ pre.solo_game # None
    /\ screen = "Home"

(* C21: on GameOver each of Enter, Esc, 'b' and 'm' moves to Home, 'q' sets   *)
(* should_quit, and every other key and every poll tick leaves every field   *)
(* of App as it was; no key on GameOver issues a remote call.                *)
HomeWardKeys == {Key("Enter"), Key("Esc"), Char("b"), Char("m")}

C21_GameOverKeys ==
    /\ AfterKeyOn("GameOver") =>
          /\ calls = <<>>
          /\ CASE ev.key \in HomeWardKeys ->
                    Snapshot = [pre EXCEPT !.screen = "Home"]
                [] ev.key = Char("q") ->
                    Snapshot = [pre EXCEPT !.should_quit = TRUE]
                [] OTHER -> Snapshot = pre
    /\ AfterPollOn("GameOver") => (Snapshot = pre /\ calls = <<>>)

C21_Witness ==
    /\ AfterKeyOn("GameOver")
    /\ ev.key = Char("m")
    /\ pre.game_over_message # <<>>
    /\ screen = "Home"
    /\ ~should_quit

(* C22: on PvpCreate, a character key c pressed while the focused field is    *)
(* below its cap (name below 40, password below 32) leaves the focused field *)
(* equal to its previous content followed by c, the other field unchanged    *)
(* and the screen PvpCreate; Backspace removes exactly the last character of *)
(* the focused field.                                                        *)
(* Violated by the character 'b', which leaves the form and is not typed.    *)
C22_CreateTyping ==
    AfterKeyOn("PvpCreate") =>
        LET onName == pre.create_field_index = 0
            before == IF onName THEN pre.create_name ELSE pre.create_password
            after == IF onName THEN create_name ELSE create_password
            cap == IF onName THEN NameCap ELSE PasswordCap
            otherKept == IF onName THEN create_password = pre.create_password
                         ELSE create_name = pre.create_name
        IN  /\ (ev.key.code = "Char" /\ Len(before) < cap) =>
                  /\ after = Append(before, ev.key.ch)
                  /\ otherKept
                  /\ screen = "PvpCreate"
            /\ ev.key = Key("Backspace") =>
                  /\ after = (IF before = <<>> THEN <<>>
                              ELSE SubSeq(before, 1, Len(before) - 1))
                  /\ otherKept
                  /\ screen = "PvpCreate"

(* C23: whenever PvpLobby is entered (from Home, from PvpCreate by cancel,   *)
(* from PvpGame by back) the join form is in its initial state: the          *)
(* join-password text is empty and the editing toggle is off.                *)
(* Violated by a password typed on an earlier visit: no handler clears it.   *)
EnteredLobby ==
    /\ ev.op = "key"
    /\ pre.screen \in {"Home", "PvpCreate", "PvpGame"}
    /\ screen = "PvpLobby"

C23_LobbyEntryClearsJoinForm ==
    EnteredLobby => (join_password = <<>> /\ ~editing_join_password)

(* C24: the solo view and the pvp view are never cross-assigned: the solo    *)
(* view is written only by a create_solo reply or by a play_move reply       *)
(* received on SoloGame, the pvp view only by a join, create_pvp or          *)
(* play_move-on-PvpGame reply or by a poll reply on PvpGame; every step      *)
(* taken on SoloGame leaves the pvp view unchanged, and every step taken on  *)
(* PvpGame, PvpLobby or PvpCreate leaves the solo view unchanged.            *)
KeyReplyTo(ops) ==
    /\ ev.op = "key"
    /\ ev.res = "ok"
    /\ Len(calls) = 1
    /\ calls[1].op \in ops

C24_ViewsNotCrossAssigned ==
    /\ solo_game # pre.solo_game =>
          \/ KeyReplyTo({"create_solo_game"}) /\ pre.screen = "Home"
          \/ KeyReplyTo({"play_move"}) /\ pre.screen = "SoloGame"
    /\ pvp_game # pre.pvp_game =>
          \/ KeyReplyTo({"join_pvp_game"}) /\ pre.screen = "PvpLobby"
          \/ KeyReplyTo({"create_pvp_game"}) /\ pre.screen = "PvpCreate"
          \/ KeyReplyTo({"play_move"}) /\ pre.screen = "PvpGame"
          \/ PollFetched
    /\ pre.screen = "SoloGame" => pvp_game = pre.pvp_game
    /\ pre.screen \in {"PvpGame", "PvpLobby", "PvpCreate"} => solo_game = pre.solo_game

C24_Witness ==
    /\ KeyReplyTo({"join_pvp_game"})
    /\ pre.screen = "PvpLobby"
    /\ solo_game # None
    /\ solo_game = pre.solo_game
    /\ pre.pvp_game = None
    /\ pvp_game # None
    /\ pvp_game # solo_game

(* C25: in every reachable state every cached game view (the solo view, the *)
(* pvp view and each entry of the lobby list) has a board of exactly 9       *)
(* cells, whatever successful replies the service returned, so rendering     *)
(* cells 0..8 of the active view is always defined.                          *)
(* Violated by a reply whose board has 8 cells: it is cached as it is, and   *)
(* the next render indexes past its end.                                     *)
NineCells(view) == Len(view.board) = BoardCells

C25_BoardsHaveNineCells ==
    /\ solo_game # None => NineCells(solo_game[1])
    /\ pvp_game # None => NineCells(pvp_game[1])
    /\ \A i \in DOMAIN pvp_games : NineCells(pvp_games[i])
    /\ pc # "panicked"

(* C26: the player's symbol is X when the player identity equals the view's  *)
(* host id (also when it equals both host and guest), O when it equals only  *)
(* the guest id, and a sentinel otherwise; a player who is neither host nor  *)
(* guest of the cached pvp game never issues a play_move from PvpGame,       *)
(* whatever current_turn the service returned.                               *)
(* Violated by a view whose current_turn is the text of the sentinel.        *)
Outsider(view) ==
    /\ view.host_player_id # player_id
    /\ view.guest_player_id # Some(player_id)

C26_OutsiderNeverMoves ==
    /\ pvp_game # None =>
          PlayerSymbolFor(pvp_game[1]) =
             (IF pvp_game[1].host_player_id = player_id THEN "X"
              ELSE IF pvp_game[1].guest_player_id = Some(player_id) THEN "O"
              ELSE "?")
    /\ (AfterKeyOn("PvpGame") /\ pre.pvp_game # None /\ Outsider(pre.pvp_game[1])) =>
          \A i \in DOMAIN calls : calls[i].op # "play_move"

(* C27: while the screen stays PvpGame and no key is pressed, the loop keeps *)
(* turning and the clock advances, so the poller runs again without any key; *)
(* if from some time on its fetch succeeds and reports WON or DRAW, the      *)
(* screen becomes GameOver.  The loop stops turning only when a render       *)
(* panics.                                                                   *)
C27_PollReachesGameOver ==
    (screen = "PvpGame" /\ pvp_game # None) ~> (screen = "GameOver" \/ pc = "panicked")

C27_Witness ==
    /\ nkeys = 0
    /\ PollFetched
    /\ pre.pvp_game[1].id = "g2"
    /\ pre.pvp_game[1].status = "IN_PROGRESS"
    /\ pvp_game[1].status = "WON"
    /\ screen = "GameOver"

(* C28: on Home, Enter with item 0 selected issues one create_solo and on    *)
(* success caches the reply as the solo view and enters SoloGame with cursor *)
(* 0, on failure enters Info; Enter with item 1 issues one list_open and on  *)
(* success replaces the lobby list, sets the lobby selection to 0 and enters *)
(* PvpLobby, on failure enters Info with the lobby list unchanged; Enter     *)
(* with item 2 sets should_quit without any remote call.                     *)
HomeEnterAt(index) ==
    /\ AfterKeyOn("Home")
    /\ ev.key = Key("Enter")
    /\ pre.home_index = index

C28_HomeEnter ==
    /\ HomeEnterAt(0) =>
          /\ calls = <<CreateSoloCall(player_id)>>
          /\ ev.res \in {"ok", "err"}
          /\ ev.res = "ok" =>
                /\ solo_game # None
                /\ solo_game[1] \in NavViews
                /\ screen = "SoloGame"
                /\ board_cursor = 0
          /\ ev.res = "err" =>
                /\ screen = "Info"
                /\ solo_game = pre.solo_game
                /\ board_cursor = pre.board_cursor
          /\ ~should_quit
    /\ HomeEnterAt(1) =>
          /\ calls = <<ListOpenCall>>
          /\ ev.res \in {"ok", "err"}
          /\ ev.res = "ok" =>
                /\ pvp_games \in Lists
                /\ pvp_selected_index = 0
                /\ screen = "PvpLobby"
          /\ ev.res = "err" =>
                /\ screen = "Info"
                /\ pvp_games = pre.pvp_games
                /\ pvp_selected_index = pre.pvp_selected_index
          /\ ~should_quit
    /\ HomeEnterAt(2) =>
          /\ should_quit
          /\ calls = <<>>
          /\ Snapshot = [pre EXCEPT !.should_quit = TRUE]

C28_Witness ==
    /\ HomeEnterAt(1)
    /\ ev.res = "err"
    /\ Len(pre.pvp_games) = 2
    /\ pvp_games = pre.pvp_games
    /\ screen = "Info"

(* C29: on PvpLobby in normal mode a join key with an empty lobby list       *)
(* issues no remote call and changes nothing; with a non-empty list it       *)
(* issues exactly one join_pvp for the id of the entry at the selection      *)
(* index, and on success replaces the pvp view with the reply, sets the      *)
(* cursor to 0 and enters PvpGame, while on failure it enters Info with the  *)
(* pvp view and the lobby list unchanged.                                    *)
JoinKeyOnLobby ==
    /\ AfterKeyOn("PvpLobby")
    /\ ~pre.editing_join_password
    /\ ev.key \in {Key("Enter"), Char("j")}

C29_JoinFromLobby ==
    JoinKeyOnLobby =>
        IF pre.pvp_games = <<>>
        THEN calls = <<>> /\ Snapshot = pre
        ELSE /\ Len(calls) = 1
             /\ calls[1].op = "join_pvp_game"
             /\ calls[1].player_id = Some(player_id)
             /\ pre.pvp_selected_index < Len(pre.pvp_games)
             /\ calls[1].game_id = Some(pre.pvp_games[pre.pvp_selected_index + 1].id)
             /\ ev.res \in {"ok", "err"}
             /\ ev.res = "ok" =>
                   /\ pvp_game # None
                   /\ pvp_game[1] \in GameViews
                   /\ board_cursor = 0
                   /\ screen = "PvpGame"
             /\ ev.res = "err" =>
                   /\ screen = "Info"
                   /\ pvp_game = pre.pvp_game
             /\ pvp_games = pre.pvp_games

C29_Witness ==
    /\ JoinKeyOnLobby
    /\ ev.res = "ok"
    /\ pre.board_cursor = 5
    /\ board_cursor = 0
    /\ pre.pvp_game[1].id = "g1"
    /\ pvp_game[1].id = "g2"
    /\ screen = "PvpGame"

(* C30: a successful poller refresh on PvpLobby replaces the list wholesale  *)
(* and keeps the selection index when it is still below the new length,      *)
(* otherwise sets it to max(new length - 1, 0); unlike the manual refresh,   *)
(* which sets it to 0, it never resets a still-valid selection, and it       *)
(* leaves the join-password buffer and the edit mode unchanged.              *)
PolledLobby ==
    /\ AfterPollOn("PvpLobby")
    /\ ev.res = "ok"
    /\ calls = <<ListOpenCall>>

C30_PollKeepsSelection ==
    /\ PolledLobby =>
          /\ pvp_games \in {<<>>, FormLobby}
          /\ pvp_selected_index =
                (IF pre.pvp_selected_index < Len(pvp_games) THEN pre.pvp_selected_index
                 ELSE IF Len(pvp_games) = 0 THEN 0
                 ELSE Len(pvp_games) - 1)
          /\ join_password = pre.join_password
          /\ editing_join_password = pre.editing_join_password
          /\ Snapshot = [pre EXCEPT !.pvp_games = pvp_games,
                                     !.pvp_selected_index = pvp_selected_index]
    /\ (AfterKeyOn("PvpLobby") /\ ev.key = Char("r") /\ ev.res = "ok") =>
          pvp_selected_index = 0

C30_Witness ==
    /\ PolledLobby
    /\ pre.pvp_selected_index = 1
    /\ pvp_selected_index = 1
    /\ pvp_games = FormLobby
    /\ join_password = <<"a">>
    /\ editing_join_password

(* C31: on PvpLobby in normal mode the refresh key issues exactly one        *)
(* list_open; on success the list is replaced by the reply, the selection    *)
(* index becomes 0 and the screen stays PvpLobby; on failure the screen      *)
(* becomes Info and the list and the selection index are unchanged.          *)
RefreshKeyOnLobby ==
    /\ AfterKeyOn("PvpLobby")
    /\ ~pre.editing_join_password
    /\ ev.key = Char("r")

C31_ManualRefresh ==
    RefreshKeyOnLobby =>
        /\ calls = <<ListOpenCall>>
        /\ ev.res \in {"ok", "err"}
        /\ ev.res = "ok" =>
              /\ pvp_games \in Lists
              /\ Snapshot = [pre EXCEPT !.pvp_games = pvp_games, !.pvp_selected_index = 0]
        /\ ev.res = "err" =>
              /\ screen = "Info"
              /\ pvp_games = pre.pvp_games
              /\ pvp_selected_index = pre.pvp_selected_index

C31_Witness ==
    /\ RefreshKeyOnLobby
    /\ ev.res = "ok"
    /\ pre.pvp_selected_index = 1
    /\ Len(pvp_games) = 2
    /\ pvp_selected_index = 0
    /\ screen = "PvpLobby"

(* C32: while PvpLobby is in password-edit mode no key issues a remote call, *)
(* changes the screen, moves the selection index or sets should_quit:        *)
(* character keys, 'b', 'q', 'j', 'r', 'c' and 'p' among them, only append   *)
(* to the join password, and only while its length is below 32; Backspace    *)
(* removes its last character; Esc and Enter only leave edit mode, without   *)
(* a join.  The length the handler tests is String::len.                     *)
KeyInEditMode ==
    /\ AfterKeyOn("PvpLobby")
    /\ pre.editing_join_password

C33_BackAndQuitOnGame ==
    \A s \in {"SoloGame", "PvpGame"} :
        /\ (AfterKeyOn(s) /\ ev.key = Char("b")) =>
              /\ calls = <<>>
              /\ Snapshot = [pre EXCEPT !.screen = IF s = "SoloGame" THEN "Home"
                                                   ELSE "PvpLobby"]
        /\ (AfterKeyOn(s) /\ ev.key = Char("q")) =>
              /\ calls = <<>>
              /\ Snapshot = [pre EXCEPT !.should_quit = TRUE]

C33_Witness ==
    /\ AfterKeyOn("PvpGame")
    /\ ev.key = Char("b")
    /\ pre.pvp_game[1].current_turn = "O"
    /\ PlayerSymbolFor(pre.pvp_game[1]) = "X"
    /\ pre.board_cursor = 7
    /\ screen = "PvpLobby"
    /\ pvp_game = pre.pvp_game
    /\ board_cursor = 7

(* C34: on PvpCreate a cancel key moves to PvpLobby without issuing any      *)
(* remote call and without changing the cached pvp view, the lobby list or   *)
(* the lobby selection index.                                                *)
CancelKeyOnCreate ==
    /\ AfterKeyOn("PvpCreate")
    /\ ev.key \in {Key("Esc"), Char("b")}

C34_CreateCancel ==
    CancelKeyOnCreate =>
        /\ calls = <<>>
        /\ screen = "PvpLobby"
        /\ pvp_game = pre.pvp_game
        /\ pvp_games = pre.pvp_games
        /\ pvp_selected_index = pre.pvp_selected_index
        /\ Snapshot = [pre EXCEPT !.screen = "PvpLobby"]

C34_Witness ==
    /\ CancelKeyOnCreate
    /\ ev.key = Key("Esc")
    /\ pre.pvp_game # None
    /\ pvp_game = pre.pvp_game
    /\ Len(pvp_games) = 2
    /\ pvp_selected_index = 1
    /\ screen = "PvpLobby"

(* C35: every entry into PvpCreate is made by the create-game key of the     *)
(* lobby and leaves the name buffer empty, the password buffer empty and the *)
(* focused field at 0, so text typed on an earlier visit is not carried into *)
(* a later create request.                                                   *)
EnteredCreate ==
    /\ ev.op \in {"key", "refresh"}
    /\ pre.screen # "PvpCreate"
    /\ screen = "PvpCreate"

C35_CreateEntryClearsForm ==
    EnteredCreate =>
        /\ ev.op = "key"
        /\ ev.key = Char("c")
        /\ pre.screen = "PvpLobby"
        /\ ~pre.editing_join_password
        /\ calls = <<>>
        /\ create_name = <<>>
        /\ create_password = <<>>
        /\ create_field_index = 0

C35_Witness ==
    /\ EnteredCreate
    /\ Len(pre.create_name) = 3
    /\ pre.create_password # <<>>
    /\ pre.create_field_index = 1
    /\ create_name = <<>>
    /\ create_password = <<>>
    /\ create_field_index = 0

(* C36: in every reachable state the form buffers are well-formed: the      *)
(* create name has at most 40 characters, the create password at most 32,    *)
(* the join password at most 32, and the focused-field index is 0 or 1; Tab, *)
(* Up and Down on PvpCreate each toggle it.                                  *)
C36_BuffersWellFormed ==
    /\ Len(create_name) <= 40
    /\ Len(create_password) <= 32
    /\ Len(join_password) <= 32
    /\ create_field_index \in {0, 1}
    /\ (AfterKeyOn("PvpCreate") /\ ev.key \in {Key("Tab"), Key("Up"), Key("Down")}) =>
          /\ create_field_index = 1 - pre.create_field_index
          /\ Snapshot = [pre EXCEPT !.create_field_index = create_field_index]

C36_Witness ==
    /\ AfterKeyOn("PvpCreate")
    /\ ev.key = Char("a")
    /\ Len(pre.create_name) = 40
    /\ pre.create_field_index = 0
    /\ create_name = pre.create_name
    /\ Len(create_password) = 0

(* C37: every screen change is one of the edges Home -> {SoloGame, PvpLobby, *)
(* Info}, SoloGame -> {Home, GameOver, Info}, PvpLobby -> {Home, PvpCreate,  *)
(* PvpGame, Info}, PvpCreate -> {PvpLobby, PvpGame, Info}, PvpGame ->        *)
(* {PvpLobby, GameOver, Info}, GameOver -> {Home}, Info -> {Home}; GameOver  *)
(* is entered only from a game screen, and a game screen only after a        *)
(* successful create or join reply.                                          *)
ScreenEdges ==
    [Home |-> {"SoloGame", "PvpLobby", "Info"},
     SoloGame |-> {"Home", "GameOver", "Info"},
     PvpLobby |-> {"Home", "PvpCreate", "PvpGame", "Info"},
     PvpCreate |-> {"PvpLobby", "PvpGame", "Info"},
     PvpGame |-> {"PvpLobby", "GameOver", "Info"},
     GameOver |-> {"Home"},
     Info |-> {"Home"}]

ScreenChanged == ev.op \in {"key", "refresh"} /\ screen # pre.screen

C37_ScreenEdges ==
    /\ screen \in Screens
    /\ ev.op \notin {"key", "refresh"} => screen = pre.screen
    /\ ScreenChanged =>
          /\ screen \in ScreenEdges[pre.screen]
          /\ screen = "GameOver" => pre.screen \in {"SoloGame", "PvpGame"}
          /\ screen \in {"SoloGame", "PvpGame"} =>
                KeyReplyTo({"create_solo_game", "join_pvp_game", "create_pvp_game"})

C37_Witness ==
    /\ ScreenChanged
    /\ ev.op = "refresh"
    /\ pre.screen = "PvpGame"
    /\ screen = "GameOver"
    /\ nkeys = 3

(* C38: in every reachable state screen SoloGame implies that a solo view is *)
(* cached and screen PvpGame that a pvp view is cached, so the early return  *)
(* of the game key handlers for a missing view and the "No active game."     *)
(* frame are never reached.                                                  *)
C38_GameScreenHasView ==
    /\ screen = "SoloGame" => solo_game # None
    /\ screen = "PvpGame" => pvp_game # None
    /\ AfterKeyOn("SoloGame") => pre.solo_game # None
    /\ AfterKeyOn("PvpGame") => pre.pvp_game # None

C38_Witness ==
    /\ screen = "PvpGame"
    /\ pvp_game # None
    /\ solo_game = None
    /\ AfterKeyOn("PvpLobby")
    /\ ev.res = "ok"
    /\ calls[1].op = "join_pvp_game"

(* C39: in every reachable state the password-edit toggle is true only      *)
(* while the screen is PvpLobby: no key, poll result or remote failure       *)
(* leaves the lobby while edit mode is on, so edit mode is off whenever the  *)
(* lobby is entered.                                                         *)
C39_EditModeOnlyInLobby ==
    /\ editing_join_password => screen = "PvpLobby"
    /\ (ev.op \in {"key", "refresh"} /\ pre.editing_join_password) => screen = "PvpLobby"
    /\ EnteredLobby => ~editing_join_password

C39_Witness ==
    /\ AfterKeyOn("PvpLobby")
    /\ pre.editing_join_password
    /\ ev.key = Char("b")
    /\ editing_join_password
    /\ join_password = <<"b">>
    /\ screen = "PvpLobby"

(* C40: no screen is a dead end: from every reachable state in which        *)
(* should_quit is false there is a finite sequence of key events, none of    *)
(* which needs a successful remote call, after which should_quit is true and *)
(* the loop of run has ended.  The sequence is the one QuitKeyFor names: its *)
(* keys issue no remote call at all.                                         *)
C40_NoDeadEnd ==
    /\ []((ev.op = "key" /\ nkeys > MaxPlayKeys) => calls = <<>>)
    /\ (~should_quit) ~> (should_quit /\ pc = "done")

C40_Witness ==
    /\ pc = "done"
    /\ should_quit
    /\ ev.key = Char("q")
    /\ pre.screen = "Home"
    /\ pre.info_message = <<"Create game failed: ", ErrStatus>>
    /\ nkeys > MaxPlayKeys

====
